---- MODULE Spec2Model ----
(***************************************************************************)
(* Model of api/manse_calendar.py: the four-pillar (Saju) HTTP handler and *)
(* its helpers hhmm_to_index, extract_ymd_pairs, compute_hour_pillar and   *)
(* the calendar-library wrappers.                                          *)
(*                                                                         *)
(* A Python str is a sequence of characters; a character is a one-symbol   *)
(* string.  Hangul characters are written romanised, one name per          *)
(* character: the stem 신 and the branch 신 are the same character and so *)
(* the same name "sin"; 년 = "nyeon", 월 = "wol", 일 = "il".               *)
(* A Python value that may be None is <<>> (None) or <<v>> (the value v).  *)
(***************************************************************************)
EXTENDS Integers, Sequences, FiniteSets, TLC

VARIABLES
    pc,        \* position: which operation is about to run / has returned
    arg,       \* arguments of the helper function under call
    ret,       \* its return value
    request,   \* query parameters of the GET request being served
    cal,       \* the KoreanLunarCalendar object do_GET constructed, if any
    locals,    \* do_GET's local variables when it returned
    calls,     \* the helper calls do_GET made, in order
    response   \* the (status code, JSON object) do_GET wrote

vars == <<pc, arg, ret, request, cal, locals, calls, response>>

None == <<>>
Some(v) == <<v>>
IsNone(o) == o = <<>>
Val(o) == o[1]

\* Bounds of the input spaces.
MaxJunkLen == 4
MaxTextLen == 3

SeqsUpTo(A, n) == UNION {[1..k -> A] : k \in 0..n}

\* ------------------------------------------------------------------------
\* Tables (lines 8-15)

\* 천간: 갑 을 병 정 무 기 경 신 임 계
STEMS == <<"gap", "eul", "byeong", "jeong", "mu", "gi", "gyeong", "sin", "im", "gye">>
\* 지지: 자 축 인 묘 진 사 오 미 신 유 술 해
BRANCHES == <<"ja", "chuk", "in", "myo", "jin", "sa", "o", "mi", "sin", "yu", "sul", "hae">>

StemSet == {STEMS[i] : i \in 1..Len(STEMS)}
BranchSet == {BRANCHES[i] : i \in 1..Len(BRANCHES)}

HOUR_START ==
    [s \in StemSet |->
        CASE s \in {"gap", "gi"} -> 0
          [] s \in {"eul", "gyeong"} -> 2
          [] s \in {"byeong", "sin"} -> 4
          [] s \in {"jeong", "im"} -> 6
          [] s \in {"mu", "gye"} -> 8]

TimeCodes ==
    {<<"0", "0">>, <<"0", "2">>, <<"0", "4">>, <<"0", "6">>, <<"0", "8">>,
     <<"1", "0">>, <<"1", "2">>, <<"1", "4">>, <<"1", "6">>, <<"1", "8">>,
     <<"2", "0">>, <<"2", "2">>, <<"2", "4">>}
TIME_MAP ==
    [c \in TimeCodes |->
        CASE c = <<"0", "0">> -> 0 [] c = <<"0", "2">> -> 1 [] c = <<"0", "4">> -> 2
          [] c = <<"0", "6">> -> 3 [] c = <<"0", "8">> -> 4 [] c = <<"1", "0">> -> 5
          [] c = <<"1", "2">> -> 6 [] c = <<"1", "4">> -> 7 [] c = <<"1", "6">> -> 8
          [] c = <<"1", "8">> -> 9 [] c = <<"2", "0">> -> 10 [] c = <<"2", "2">> -> 11
          [] c = <<"2", "4">> -> 0]

\* ------------------------------------------------------------------------
\* Characters, re and int

DIGITS == <<"0", "1", "2", "3", "4", "5", "6", "7", "8", "9">>
DigitSet == {DIGITS[i] : i \in 1..10}
IsDigit(c) == c \in DigitSet
DigitVal(c) == (CHOOSE i \in 1..10 : DIGITS[i] = c) - 1

\* int(s) for a non-empty string of decimal digits
RECURSIVE int(_)
int(s) ==
    IF Len(s) = 0 THEN 0
    ELSE 10 * int(SubSeq(s, 1, Len(s) - 1)) + DigitVal(s[Len(s)])

\* The positions where "$" matches: the end of the string, and just before a
\* newline that is the string's last character.
DollarEnds(s) ==
    {Len(s)} \cup (IF Len(s) > 0 /\ s[Len(s)] = "\n" THEN {Len(s) - 1} ELSE {})

AllDigits(s) == \A i \in 1..Len(s) : IsDigit(s[i])

\* re.match(r'^(\d{1,2}):(\d{2})$', s): None, or the two groups
match_hhmm(s) ==
    LET ok == {<<n, e>> \in {1, 2} \X DollarEnds(s) :
                  /\ e = n + 3
                  /\ AllDigits(SubSeq(s, 1, n))
                  /\ s[n + 1] = ":"
                  /\ AllDigits(SubSeq(s, n + 2, n + 3))}
    IN  IF ok = {} THEN None
        ELSE LET n == (CHOOSE p \in ok : TRUE)[1]
             IN  Some(<<SubSeq(s, 1, n), SubSeq(s, n + 2, n + 3)>>)

\* ------------------------------------------------------------------------
\* hhmm_to_index (lines 17-51)

blocks ==
    << <<23, 30, 1, 29>>, <<1, 30, 3, 29>>, <<3, 30, 5, 29>>, <<5, 30, 7, 29>>,
       <<7, 30, 9, 29>>, <<9, 30, 11, 29>>, <<11, 30, 13, 29>>, <<13, 30, 15, 29>>,
       <<15, 30, 17, 29>>, <<17, 30, 19, 29>>, <<19, 30, 21, 29>>, <<21, 30, 23, 29>> >>

\* block_hit with the end minute of a block left out of it
block_hit_open_end(b, cur) ==
    LET s == (b[1] * 60 + b[2]) % (24 * 60)
        e == (b[3] * 60 + b[4]) % (24 * 60)
    IN  IF s <= e THEN s <= cur /\ cur < e
        ELSE cur >= s \/ cur < e

\* the test of one block (lines 38-46)
block_hit(b, cur) ==
    LET s == (b[1] * 60 + b[2]) % (24 * 60)
        e == (b[3] * 60 + b[4]) % (24 * 60)
    IN  IF s <= e THEN s <= cur /\ cur <= e
        ELSE cur >= s \/ cur <= e

fast_path(hh, mm) == hh = 23 /\ mm >= 30

hhmm_to_index(hhmm) ==
    LET m == match_hhmm(hhmm) IN
    IF IsNone(m) THEN None
    ELSE
        LET hh == int(Val(m)[1])
            mm == int(Val(m)[2])
            cur == hh * 60 + mm
            hits == {i \in 1..Len(blocks) : block_hit(blocks[i], cur)}
        IN  IF fast_path(hh, mm) THEN Some(0)
            ELSE IF hits # {} THEN Some((CHOOSE i \in hits : \A j \in hits : i <= j) - 1)
            ELSE IF 0 <= hh /\ hh <= 1 /\ cur <= 89 THEN Some(0)
            ELSE None

\* ------------------------------------------------------------------------
\* Harness for hhmm_to_index: every string the pattern accepts (one or two digit
\* hour, two digit minute, with or without a final newline) and short strings
\* over an alphabet of digits, colon, letter, space and newline.

HourStrings == [1..1 -> DigitSet] \cup [1..2 -> DigitSet]
MinuteStrings == [1..2 -> DigitSet]
JunkAlphabet == {"1", "9", ":", "a", " ", "\n"}

TimeInputs ==
    {h \o <<":">> \o m \o nl :
        h \in HourStrings, m \in MinuteStrings, nl \in {<<>>, <<"\n">>}}
    \cup SeqsUpTo(JunkAlphabet, MaxJunkLen)

Idle ==
    /\ request = None /\ cal = None /\ locals = None
    /\ calls = <<>> /\ response = None

InitHhmm ==
    /\ pc = "call_hhmm_to_index"
    /\ arg \in TimeInputs
    /\ ret = None
    /\ Idle

Call_hhmm_to_index ==
    /\ pc = "call_hhmm_to_index"
    /\ ret' = hhmm_to_index(arg)
    /\ pc' = "ret_hhmm_to_index"
    /\ UNCHANGED <<arg, request, cal, locals, calls, response>>

SpecHhmm == InitHhmm /\ [][Call_hhmm_to_index]_vars

\* "H:MM" (w = 1, hh < 10) or "HH:MM" (w = 2) as a clock would write hh:mm
TwoDigits(n) == <<DIGITS[(n \div 10) + 1], DIGITS[(n % 10) + 1]>>
FormatHour(hh, w) == IF w = 1 THEN <<DIGITS[hh + 1]>> ELSE TwoDigits(hh)
FormatTime(hh, mm, w) == FormatHour(hh, w) \o <<":">> \o TwoDigits(mm)
HourWidths(hh) == IF hh < 10 THEN {1, 2} ELSE {2}

\* the double-hour window a minute of the day lies in
WindowOf(cur) ==
    IF cur >= 23 * 60 + 30 \/ cur <= 1 * 60 + 29 THEN 0
    ELSE CHOOSE i \in 1..11 :
            (2 * i - 1) * 60 + 30 <= cur /\ cur <= (2 * i + 1) * 60 + 29

\* C1: for every valid 24-hour time hh:mm, written with a one or two digit
\* hour, hhmm_to_index returns bucket 0 in 23:30-23:59 and 00:00-01:29 and
\* bucket i in the window [(2i-1):30, (2i+1):29], boundary minutes included;
\* the result is ((hh*60 + mm + 30) mod 1440) div 120.
C1_ValidTimeBucket ==
    pc = "ret_hhmm_to_index" =>
        \A hh \in 0..23 : \A w \in HourWidths(hh) :
            (Len(arg) = w + 3 /\ SubSeq(arg, 1, w) = FormatHour(hh, w)) =>
                \A mm \in 0..59 :
                    arg = FormatTime(hh, mm, w) =>
                        /\ ret = Some(WindowOf(hh * 60 + mm))
                        /\ ret = Some(((hh * 60 + mm + 30) % 1440) \div 120)

\* the last minute of window 1 (3:29) has been resolved to bucket 1
C1_Witness ==
    /\ pc = "ret_hhmm_to_index"
    /\ arg = <<"3", ":", "2", "9">>
    /\ ret = Some(1)

IsValidTime(s) ==
    \E hh \in 0..23 : \E w \in HourWidths(hh) :
        /\ Len(s) = w + 3
        /\ SubSeq(s, 1, w) = FormatHour(hh, w)
        /\ \E mm \in 0..59 : s = FormatTime(hh, mm, w)

\* C8: hhmm_to_index returns null for every time string that is not a valid
\* 24-hour "HH:MM" time, strings of that form with hour > 23 or minute > 59
\* included.
C8_InvalidTimeIsNull ==
    (pc = "ret_hhmm_to_index" /\ ~IsValidTime(arg)) => ret = None

\* ------------------------------------------------------------------------
\* compute_hour_pillar (lines 91-100)

\* compute_hour_pillar with the day stem's offset left out of the stem index
compute_hour_pillar_no_offset(day_stem_kr, hour_idx) ==
    IF ~(Len(day_stem_kr) = 1 /\ day_stem_kr[1] \in DOMAIN HOUR_START) THEN None
    ELSE Some(<<STEMS[(hour_idx % 10) + 1], BRANCHES[hour_idx + 1]>>)

\* day_stem_kr is a str; the keys of HOUR_START are the one-character stems
compute_hour_pillar(day_stem_kr, hour_idx) ==
    IF ~(Len(day_stem_kr) = 1 /\ day_stem_kr[1] \in DOMAIN HOUR_START) THEN None
    ELSE
        LET stem_idx == (HOUR_START[day_stem_kr[1]] + hour_idx) % 10
            stem == STEMS[stem_idx + 1]
            branch == BRANCHES[hour_idx + 1]
        IN  Some(<<stem, branch>>)

\* Harness: every one-character symbol of the pillar texts, the empty string
\* and a two-character string as day stem; every bucket.
Symbols == StemSet \cup BranchSet \cup {"nyeon", "wol", "il", "si", " ", "x"}
DayStemInputs == {<<c>> : c \in Symbols} \cup {<<>>, <<"gap", "ja">>}
Buckets == 0..(Len(BRANCHES) - 1)

InitHour ==
    /\ pc = "call_compute_hour_pillar"
    /\ arg \in DayStemInputs \X Buckets
    /\ ret = None
    /\ Idle

Call_compute_hour_pillar ==
    /\ pc = "call_compute_hour_pillar"
    /\ ret' = compute_hour_pillar(arg[1], arg[2])
    /\ pc' = "ret_compute_hour_pillar"
    /\ UNCHANGED <<arg, request, cal, locals, calls, response>>

SpecHour == InitHour /\ [][Call_compute_hour_pillar]_vars

\* C3: for every day stem s (the stem at index k) and bucket b in 0..11,
\* compute_hour_pillar(s, b) is STEMS[(HOUR_START[s] + b) mod 10] followed by
\* BRANCHES[b]; HOUR_START[s] is 2*(k mod 5), one of {0,2,4,6,8}, shared by the
\* stems at k and k+5; the stem index is in 0..9; for any symbol that is not
\* one of the 10 stems the result is null.
C3_HourPillar ==
    pc = "ret_compute_hour_pillar" =>
        LET s == arg[1]
            b == arg[2]
            ks == {k \in 0..9 : s = <<STEMS[k + 1]>>}
        IN  IF ks = {} THEN ret = None
            ELSE \A k \in ks :
                    LET off == 2 * (k % 5)
                        idx == (off + b) % 10
                    IN  /\ HOUR_START[STEMS[k + 1]] = off
                        /\ HOUR_START[STEMS[((k + 5) % 10) + 1]] = off
                        /\ off \in {0, 2, 4, 6, 8}
                        /\ idx \in 0..9
                        /\ ret = Some(<<STEMS[idx + 1], BRANCHES[b + 1]>>)

\* day stem 기 (index 5) at bucket 11 gives 을해: (0 + 11) mod 10 = 1
C3_Witness ==
    /\ pc = "ret_compute_hour_pillar"
    /\ arg = <<(<<"gi">>), 11>>
    /\ ret = Some(<<"eul", "hae">>)

\* ------------------------------------------------------------------------
\* extract_ymd_pairs (lines 53-66)

IsSpace(c) == c \in {" ", "\n", "\t"}

Least(S) == CHOOSE i \in S : \A j \in S : i <= j

\* re.search(r'([stems][branches])<marker>', text): None, or group 1 of the
\* leftmost match
search_pair(text, marker) ==
    LET at == {i \in 1..(Len(text) - 2) :
                  /\ text[i] \in StemSet
                  /\ text[i + 1] \in BranchSet
                  /\ text[i + 2] = marker}
    IN  IF at = {} THEN None
        ELSE Some(<<text[Least(at)], text[Least(at) + 1]>>)

\* the day-stem search with "." in place of "[^\s]": spaces do not stop it
search_day_stem_any(text) ==
    LET at == {i \in 1..Len(text) :
                  /\ text[i] \in StemSet
                  /\ \E j \in (i + 1)..Len(text) : text[j] = "il"}
    IN  IF at = {} THEN None ELSE Some(<<text[Least(at)]>>)

\* re.search(r'([stems])[^\s]*일', text): None, or group 1 of the leftmost
\* match: the first stem character from which a run of non-space characters
\* reaches an 일
search_day_stem(text) ==
    LET at == {i \in 1..Len(text) :
                  /\ text[i] \in StemSet
                  /\ \E j \in (i + 1)..Len(text) :
                        /\ text[j] = "il"
                        /\ \A k \in (i + 1)..(j - 1) : ~IsSpace(text[k])}
    IN  IF at = {} THEN None ELSE Some(<<text[Least(at)]>>)

extract_ymd_pairs(ganji_kr) ==
    LET y == search_pair(ganji_kr, "nyeon")
        m == search_pair(ganji_kr, "wol")
        d == search_pair(ganji_kr, "il")
        day_stem == search_day_stem(ganji_kr)
    IN  <<y, m, d, day_stem>>

\* Harness: texts "<prefix><Y>년<sep><M>월<sep><D>일<suffix>" in which at
\* least two of the three pillars come from a short list and the third is
\* any stem-branch pair, and every short text over an alphabet of pillar
\* characters, markers and the space.
Pillars == {<<s, b>> : s \in StemSet, b \in BranchSet}
FixedPillars == {<<"gap", "ja">>, <<"sin", "sin">>}
PillarTriples ==
    (Pillars \X FixedPillars \X FixedPillars)
    \cup (FixedPillars \X Pillars \X FixedPillars)
    \cup (FixedPillars \X FixedPillars \X Pillars)
    \cup {<<(<<"gap", "ja">>), (<<"eul", "chuk">>), (<<"byeong", "in">>)>>}
Prefixes == {<<>>, <<"im">>, <<"im", " ">>}
Separators == {<<" ">>, <<>>}
Suffixes == {<<>>, <<"x">>, <<" ", "x">>, <<" ", "gye", "hae", "il">>}
TextAlphabet == {"gap", "sin", "ja", "nyeon", "wol", "il", " "}

PillarText(pre, t, s1, s2, suf) ==
    pre \o t[1] \o <<"nyeon">> \o s1 \o t[2] \o <<"wol">> \o s2 \o t[3] \o <<"il">> \o suf

TextInputs ==
    {PillarText(pre, t, s1, s2, suf) :
        pre \in Prefixes, t \in PillarTriples, s1 \in Separators, s2 \in Separators,
        suf \in Suffixes}
    \cup SeqsUpTo(TextAlphabet, MaxTextLen)

InitExtract ==
    /\ pc = "call_extract_ymd_pairs"
    /\ arg \in TextInputs
    /\ ret = None
    /\ Idle

Call_extract_ymd_pairs ==
    /\ pc = "call_extract_ymd_pairs"
    /\ ret' = extract_ymd_pairs(arg)
    /\ pc' = "ret_extract_ymd_pairs"
    /\ UNCHANGED <<arg, request, cal, locals, calls, response>>

SpecExtract == InitExtract /\ [][Call_extract_ymd_pairs]_vars

IsPillar(p) == Len(p) = 2 /\ p[1] \in StemSet /\ p[2] \in BranchSet

\* text begins "<Y>년 <M>월 <D>일": pillars at 1-2, 5-6, 9-10
WellFormedText(t) ==
    /\ Len(t) >= 11
    /\ IsPillar(SubSeq(t, 1, 2)) /\ t[3] = "nyeon" /\ t[4] = " "
    /\ IsPillar(SubSeq(t, 5, 6)) /\ t[7] = "wol" /\ t[8] = " "
    /\ IsPillar(SubSeq(t, 9, 10)) /\ t[11] = "il"

\* C6: applied to "<Y>년 <M>월 <D>일", optionally followed by extra text,
\* extract_ymd_pairs returns Y, M, D and the stem of D, also when a pillar
\* contains 신, which is both a stem and a branch.
C6_RoundTrip ==
    (pc = "ret_extract_ymd_pairs" /\ WellFormedText(arg)) =>
        ret = <<Some(SubSeq(arg, 1, 2)), Some(SubSeq(arg, 5, 6)),
                Some(SubSeq(arg, 9, 10)), Some(<<arg[9]>>)>>

\* "갑신년 신신월 병신일 x" has been parsed into 갑신, 신신, 병신, 병
C6_Witness ==
    /\ pc = "ret_extract_ymd_pairs"
    /\ arg = <<"sin", "sin", "nyeon", " ", "sin", "sin", "wol", " ",
               "byeong", "sin", "il", " ", "x">>
    /\ ret = <<Some(<<"sin", "sin">>), Some(<<"sin", "sin">>),
               Some(<<"byeong", "sin">>), Some(<<"byeong">>)>>

\* C10: for every text for which extract_ymd_pairs returns a day pillar, the
\* returned day stem is non-null and is the first character of that pillar.
C10_DayStemOfDayPillar ==
    (pc = "ret_extract_ymd_pairs" /\ ret[3] # None) =>
        /\ ret[4] # None
        /\ Val(ret[4]) = <<Val(ret[3])[1]>>

\* ------------------------------------------------------------------------
\* The calendar library and its wrappers (lines 69-89)

MethodNames == {"setSolar", "setSolarDate", "setLunar", "setLunarDate", "getGanji"}

\* What the installed library may do: the methods its calendar objects have,
\* whether its date setter or its pillar getter raises, and the text its
\* pillar getter returns.
GanjiTexts ==
    { <<"gap", "ja", "nyeon", " ", "eul", "chuk", "wol", " ", "byeong", "in", "il">>,
      <<"gap", "ja", "nyeon", "eul", "chuk", "wol", "byeong", "in", "il">>,
      <<"gap", "ja", "nyeon", " ", "byeong", "in", "il">>,
      <<"gyeong", "sin", "nyeon", " ", "sin", "sin", "wol", " ", "sin", "yu", "il", " ", "x">> }
Libraries ==
    [attrs : SUBSET MethodNames, fault : {"none", "set", "get"}, ganji : GanjiTexts]

\* KoreanLunarCalendar(): a fresh calendar object, no date set
KoreanLunarCalendar(lib) ==
    [attrs |-> lib.attrs, fault |-> lib.fault, ganji |-> lib.ganji, date |-> None]

hasattr(c, name) == name \in c.attrs

Returned(c, v) == [raised |-> None, cal |-> c, value |-> v]
Raised(c, msg) == [raised |-> Some(msg), cal |-> c, value |-> None]

\* the library's own date setters
lib_set(c, date) ==
    IF c.fault = "set" THEN Raised(c, "library fault in date setter")
    ELSE Returned([c EXCEPT !.date = Some(date)], None)

\* set_solar that does nothing when the library has neither setter
set_solar_silent(c, y, m, d) ==
    IF hasattr(c, "setSolar") THEN lib_set(c, <<"solar", y, m, d, FALSE>>)
    ELSE IF hasattr(c, "setSolarDate") THEN lib_set(c, <<"solar", y, m, d, FALSE>>)
    ELSE Returned(c, None)

set_solar(c, y, m, d) ==
    IF hasattr(c, "setSolar") THEN lib_set(c, <<"solar", y, m, d, FALSE>>)
    ELSE IF hasattr(c, "setSolarDate") THEN lib_set(c, <<"solar", y, m, d, FALSE>>)
    ELSE Raised(c, "KoreanLunarCalendar: setSolar/setSolarDate not found")

set_lunar(c, y, m, d, is_leap) ==
    IF hasattr(c, "setLunar") THEN lib_set(c, <<"lunar", y, m, d, is_leap>>)
    ELSE IF hasattr(c, "setLunarDate") THEN lib_set(c, <<"lunar", y, m, d, is_leap>>)
    ELSE Raised(c, "KoreanLunarCalendar: setLunar/setLunarDate not found")

get_ganji(c) ==
    IF hasattr(c, "getGanji")
    THEN IF c.fault = "get" THEN Raised(c, "library fault in getGanji")
         ELSE Returned(c, c.ganji)
    ELSE Returned(c, <<>>)

\* ------------------------------------------------------------------------
\* handler.do_GET (lines 103-149) and handler._json (lines 151-158)

\* (qs.get(name) or [default])[0]: parse_qs leaves blank values out
qs_get(qs, name, default) == IF qs[name] = None THEN default ELSE Val(qs[name])

upper_char(c) ==
    CASE c = "l" -> "L" [] c = "u" -> "U" [] c = "n" -> "N" [] c = "a" -> "A"
      [] c = "r" -> "R" [] c = "s" -> "S" [] c = "o" -> "O" [] OTHER -> c
lower_char(c) ==
    CASE c = "T" -> "t" [] c = "R" -> "r" [] c = "U" -> "u" [] c = "E" -> "e"
      [] OTHER -> c
upper(s) == [i \in 1..Len(s) |-> upper_char(s[i])]
lower(s) == [i \in 1..Len(s) |-> lower_char(s[i])]

\* re.match(r'^\d{8}$', birthday) (line 115)
match_birthday(s) ==
    \E e \in DollarEnds(s) : e = 8 /\ AllDigits(SubSeq(s, 1, 8))

\* truth value of a str-or-None
Truthy(o) == o # None /\ Val(o) # <<>>

\* the test of line 129 with the month pillar left out
pillars_parsed_no_month(ypair, mpair, dpair) == Truthy(ypair) /\ Truthy(dpair)

\* ypair and mpair and dpair (line 129)
pillars_parsed(ypair, mpair, dpair) == Truthy(ypair) /\ Truthy(mpair) /\ Truthy(dpair)

\* f"{v}" for a str-or-None
fstr(o) == IF o = None THEN <<"N", "o", "n", "e">> ELSE Val(o)

\* lines 133-137 with the free-form time tried before the code
hour_index_time_first(time_code, time_hhmm) ==
    LET by_time == IF time_hhmm # <<>> THEN hhmm_to_index(time_hhmm) ELSE None
    IN  [hour_idx |-> IF by_time = None /\ time_code \in DOMAIN TIME_MAP
                      THEN Some(TIME_MAP[time_code]) ELSE by_time,
         calls |-> IF time_hhmm # <<>> THEN <<"hhmm_to_index">> ELSE <<>>]

\* lines 133-137: the bucket, and the call made to find it
hour_index(time_code, time_hhmm) ==
    LET by_code == IF time_code \in DOMAIN TIME_MAP THEN Some(TIME_MAP[time_code])
                   ELSE None
        use_time == by_code = None /\ time_hhmm # <<>>
    IN  [hour_idx |-> IF use_time THEN hhmm_to_index(time_hhmm) ELSE by_code,
         calls |-> IF use_time THEN <<"hhmm_to_index">> ELSE <<>>]

\* lines 140-144 with "if hour_idx and day_stem": bucket 0 counts as false
result_text_falsy_zero(ypair, mpair, dpair, day_stem, hour_idx) ==
    LET base == fstr(ypair) \o <<"nyeon", " ">> \o fstr(mpair) \o <<"wol", " ">>
                    \o fstr(dpair) \o <<"il">>
        derive == hour_idx # None /\ Val(hour_idx) # 0 /\ Truthy(day_stem)
        hpair == IF derive THEN compute_hour_pillar(Val(day_stem), Val(hour_idx)) ELSE None
    IN  [result |-> IF Truthy(hpair) THEN base \o <<" ">> \o Val(hpair) \o <<"si">> ELSE base,
         hpair |-> hpair,
         calls |-> IF derive THEN <<"compute_hour_pillar">> ELSE <<>>]

\* lines 140-144: the result string (시 = "si"), and the call made to build it
result_text(ypair, mpair, dpair, day_stem, hour_idx) ==
    LET base == fstr(ypair) \o <<"nyeon", " ">> \o fstr(mpair) \o <<"wol", " ">>
                    \o fstr(dpair) \o <<"il">>
        derive == hour_idx # None /\ Truthy(day_stem)
        hpair == IF derive THEN compute_hour_pillar(Val(day_stem), Val(hour_idx)) ELSE None
    IN  [result |-> IF Truthy(hpair) THEN base \o <<" ">> \o Val(hpair) \o <<"si">> ELSE base,
         hpair |-> hpair,
         calls |-> IF derive THEN <<"compute_hour_pillar">> ELSE <<>>]

\* self._json(code, obj): the response written
json(code, obj) == [code |-> code, body |-> obj]

BadRequest == [error |-> "bad_request", message |-> "birthday must be YYYYMMDD"]
CalcFailed == [error |-> "calc_failed", message |-> "failed to parse pillars"]
Exception(msg) == [error |-> "exception", message |-> msg]

\* What one run of do_GET leaves behind: the response, the calendar object
\* constructed (if any), the locals at the return and the helper calls made.
Outcome(resp, c, lv, cs) == [response |-> resp, cal |-> c, locals |-> lv, calls |-> cs]

do_GET(qs, lib) ==
    LET birthday == qs_get(qs, "birthday", <<>>)
        time_code == qs_get(qs, "timeCode", <<>>)
        time_hhmm == qs_get(qs, "time", <<>>)
        birthday_type == upper(qs_get(qs, "birthdayType", <<"S", "O", "L", "A", "R">>))
        is_leap == lower(qs_get(qs, "isLeap", <<"f", "a", "l", "s", "e">>))
                       = <<"t", "r", "u", "e">>
    IN
    IF ~match_birthday(birthday)
    THEN Outcome(json(400, BadRequest), None, None, <<>>)
    ELSE
    LET y == int(SubSeq(birthday, 1, 4))
        m == int(SubSeq(birthday, 5, 6))
        d == int(SubSeq(birthday, 7, 8))
        cal0 == KoreanLunarCalendar(lib)
        lunar == birthday_type = <<"L", "U", "N", "A", "R">>
        set == IF lunar THEN set_lunar(cal0, y, m, d, is_leap) ELSE set_solar(cal0, y, m, d)
        cs1 == <<"KoreanLunarCalendar", IF lunar THEN "set_lunar" ELSE "set_solar">>
    IN
    IF set.raised # None
    THEN Outcome(json(500, Exception(Val(set.raised))), Some(set.cal), None, cs1)
    ELSE
    LET got == get_ganji(set.cal)
        cs2 == Append(cs1, "get_ganji")
    IN
    IF got.raised # None
    THEN Outcome(json(500, Exception(Val(got.raised))), Some(got.cal), None, cs2)
    ELSE
    LET ganji_kr == got.value
        p == extract_ymd_pairs(ganji_kr)
        cs3 == Append(cs2, "extract_ymd_pairs")
        parsed == [ganji_kr |-> ganji_kr, ypair |-> p[1], mpair |-> p[2],
                   dpair |-> p[3], day_stem |-> p[4],
                   hour_idx |-> None, hpair |-> None, result |-> None]
    IN
    IF ~pillars_parsed(p[1], p[2], p[3])
    THEN Outcome(json(500, CalcFailed), Some(got.cal), Some(parsed), cs3)
    ELSE
    LET h == hour_index(time_code, time_hhmm)
        r == result_text(p[1], p[2], p[3], p[4], h.hour_idx)
    IN  Outcome(json(200, [result |-> r.result]),
                Some(got.cal),
                Some([parsed EXCEPT !.hour_idx = h.hour_idx, !.hpair = r.hpair,
                                    !.result = Some(r.result)]),
                cs3 \o h.calls \o r.calls)

\* ------------------------------------------------------------------------
\* One handler object serves one request.

Str(s) == Some(s)
BirthdayInputs ==
    { None,
      Str(<<"1", "9", "9", "0", "0", "1", "0", "1">>),
      Str(<<"1", "9", "9", "0", "0", "1", "0">>),
      Str(<<"1", "9", "9", "0", "0", "1", "0", "a">>),
      Str(<<"1", "9", "9", "0", "0", "1", "0", "1", "1">>),
      Str(<<"1", "9", "9", "0", "0", "1", "0", "1", "\n">>) }
TimeCodeInputs == {None, Str(<<"9", "9">>)} \cup {Str(c) : c \in TimeCodes}
TimeParamInputs ==
    { None,
      Str(<<"1", "2", ":", "3", "0">>),
      Str(<<"a", "b">>) }
BirthdayTypeInputs == {None, Str(<<"L", "u", "n", "a", "r">>)}
IsLeapInputs == {None, Str(<<"T", "r", "u", "e">>)}

Requests ==
    [birthday : BirthdayInputs, timeCode : TimeCodeInputs, time : TimeParamInputs,
     birthdayType : BirthdayTypeInputs, isLeap : IsLeapInputs, gender : {None}]

Init ==
    /\ pc = "idle"
    /\ arg = None
    /\ ret = None
    /\ Idle

Receive ==
    /\ pc = "idle"
    /\ \E qs \in Requests : request' = Some(qs)
    /\ pc' = "do_GET"
    /\ UNCHANGED <<arg, ret, cal, locals, calls, response>>

DoGET ==
    /\ pc = "do_GET"
    /\ \E lib \in Libraries :
          LET out == do_GET(Val(request), lib)
          IN  /\ response' = Some(out.response)
              /\ cal' = out.cal
              /\ locals' = out.locals
              /\ calls' = out.calls
    /\ pc' = "responded"
    /\ UNCHANGED <<arg, ret, request>>

Next == Receive \/ DoGET

Spec == Init /\ [][Next]_vars

\* ------------------------------------------------------------------------
\* Properties of do_GET

Responded == pc = "responded"
Param(name) == IF Val(request)[name] = None THEN <<>> ELSE Val(Val(request)[name])
Code == Val(response).code
Body == Val(response).body
Called(f) == \E i \in 1..Len(calls) : calls[i] = f

EightDigits(s) == Len(s) = 8 /\ \A i \in 1..8 : s[i] \in DigitSet

\* the even-hour codes "00", "02", ..., "24" and their buckets
RecognizedCode(tc) ==
    /\ Len(tc) = 2 /\ tc[1] \in DigitSet /\ tc[2] \in DigitSet
    /\ int(tc) % 2 = 0 /\ int(tc) <= 24
CodeBucket(tc) == IF int(tc) = 24 THEN 0 ELSE int(tc) \div 2

\* C2: a recognized timeCode fixes the bucket at its table value (00->0,
\* 02->1, ..., 22->11, 24->0) whatever time is; time is passed to
\* hhmm_to_index only when timeCode is not recognized and time is non-empty;
\* otherwise no bucket is resolved.
C2_CodePrecedence ==
    Responded =>
        LET tc == Param("timeCode")
            t == Param("time")
        IN  IF Code = 200
            THEN /\ RecognizedCode(tc) =>
                        /\ Val(locals).hour_idx = Some(CodeBucket(tc))
                        /\ ~Called("hhmm_to_index")
                 /\ (~RecognizedCode(tc) /\ t # <<>>) =>
                        /\ Called("hhmm_to_index")
                        /\ Val(locals).hour_idx = hhmm_to_index(t)
                 /\ (~RecognizedCode(tc) /\ t = <<>>) =>
                        /\ ~Called("hhmm_to_index")
                        /\ Val(locals).hour_idx = None
            ELSE ~Called("hhmm_to_index")

\* timeCode=24 with time=12:30 has been answered from bucket 0, not bucket 6
C2_Witness ==
    /\ Responded /\ Code = 200
    /\ Param("timeCode") = <<"2", "4">>
    /\ Param("time") = <<"1", "2", ":", "3", "0">>
    /\ Val(locals).hour_idx = Some(0)
    /\ ~Called("hhmm_to_index")

\* C4: a birthday that is missing or not exactly 8 digits is answered 400
\* bad_request "birthday must be YYYYMMDD", before any calendar object is
\* constructed and before any calendar, parsing or hour computation.
C4_MalformedBirthday400 ==
    (Responded /\ ~EightDigits(Param("birthday"))) =>
        /\ response = Some([code |-> 400,
                            body |-> [error |-> "bad_request",
                                      message |-> "birthday must be YYYYMMDD"]])
        /\ cal = None
        /\ calls = <<>>

\* The calendar calls the request makes, from the library's side.
LunarRequest == upper(Param("birthdayType")) = <<"L", "U", "N", "A", "R">>
SetterMissing ==
    IF LunarRequest
    THEN Val(cal).attrs \cap {"setLunar", "setLunarDate"} = {}
    ELSE Val(cal).attrs \cap {"setSolar", "setSolarDate"} = {}
SetterFails == SetterMissing \/ Val(cal).fault = "set"
GetterMissing == "getGanji" \notin Val(cal).attrs
GetterFails == ~GetterMissing /\ Val(cal).fault = "get"
\* the combined pillar text get_ganji hands to the parser
GanjiObtained == IF GetterMissing THEN <<>> ELSE Val(cal).ganji

\* C5: with a well-formed birthday and no exception from the calendar calls,
\* a null year, month or day pillar gives 500 calc_failed "failed to parse
\* pillars" whatever timeCode/time are; no 200 response has a missing pillar.
C5_CalcFailed ==
    /\ (Responded /\ EightDigits(Param("birthday")) /\ ~SetterFails /\ ~GetterFails) =>
            LET p == extract_ymd_pairs(GanjiObtained)
            IN  (p[1] = None \/ p[2] = None \/ p[3] = None) =>
                    response = Some([code |-> 500,
                                     body |-> [error |-> "calc_failed",
                                               message |-> "failed to parse pillars"]])
    /\ (Responded /\ Code = 200) =>
            LET p == extract_ymd_pairs(GanjiObtained)
            IN  p[1] # None /\ p[2] # None /\ p[3] # None

\* "갑자년 병인일" (no month pillar) with timeCode=12 has been answered calc_failed
C5_Witness ==
    /\ Responded
    /\ Param("birthday") = <<"1", "9", "9", "0", "0", "1", "0", "1">>
    /\ Param("timeCode") = <<"1", "2">>
    /\ GanjiObtained = <<"gap", "ja", "nyeon", " ", "byeong", "in", "il">>
    /\ Code = 500 /\ Body.error = "calc_failed"

\* C7: a 200 response carries exactly "<Y>년 <M>월 <D>일" when no bucket was
\* resolved, and that text followed by " <H>시", H = compute_hour_pillar(day
\* stem, bucket), when a bucket and the day stem were resolved; with
\* timeCode=00 the hour pillar's branch is 자; a missing or unresolvable time
\* never turns a successful request into an error.
C7_ResultText ==
    /\ (Responded /\ Code = 200) =>
            LET p == extract_ymd_pairs(GanjiObtained)
                base == Val(p[1]) \o <<"nyeon", " ">> \o Val(p[2]) \o <<"wol", " ">>
                            \o Val(p[3]) \o <<"il">>
                bucket == Val(locals).hour_idx
                text == Body.result
            IN  /\ bucket = None => text = base
                /\ (bucket # None /\ p[4] # None) =>
                        text = base \o <<" ">>
                                 \o Val(compute_hour_pillar(Val(p[4]), Val(bucket)))
                                 \o <<"si">>
                /\ Param("timeCode") = <<"0", "0">> =>
                        /\ Len(text) = Len(base) + 4
                        /\ text[Len(text) - 1] = "ja"
    /\ (Responded /\ EightDigits(Param("birthday")) /\ ~SetterFails /\ ~GetterFails) =>
            LET p == extract_ymd_pairs(GanjiObtained)
            IN  (p[1] # None /\ p[2] # None /\ p[3] # None) => Code = 200

\* timeCode=00 on day 병인 has been answered "갑자년 을축월 병인일 무자시"
C7_Witness ==
    /\ Responded /\ Code = 200
    /\ Param("timeCode") = <<"0", "0">>
    /\ Body.result = <<"gap", "ja", "nyeon", " ", "eul", "chuk", "wol", " ",
                       "byeong", "in", "il", " ", "mu", "ja", "si">>

\* C9: when the calendar object lacks a library method the request needs (the
\* solar setter, the lunar setter or getGanji), the response is 500
\* error=exception, not calc_failed or 200.
C9_MissingMethodException ==
    (Responded /\ EightDigits(Param("birthday"))
        /\ (SetterMissing \/ (~SetterFails /\ GetterMissing))) =>
        (Code = 500 /\ Body.error = "exception")

\* C9 as amended: a missing solar or lunar setter is answered 500
\* error=exception with the wrapper's fault text; a missing getGanji (after a
\* setter call that raised nothing) is read as the empty pillar text and
\* answered 500 error=calc_failed.
C9_MissingMethodOutcome ==
    (Responded /\ EightDigits(Param("birthday"))) =>
        /\ SetterMissing =>
                /\ Code = 500 /\ Body.error = "exception"
                /\ Body.message =
                        IF LunarRequest
                        THEN "KoreanLunarCalendar: setLunar/setLunarDate not found"
                        ELSE "KoreanLunarCalendar: setSolar/setSolarDate not found"
        /\ (~SetterFails /\ GetterMissing) =>
                /\ Code = 500 /\ Body.error = "calc_failed"
                /\ Body.message = "failed to parse pillars"

\* a library with setSolarDate but no getGanji has been answered calc_failed
C9_Witness ==
    /\ Responded
    /\ Param("birthday") = <<"1", "9", "9", "0", "0", "1", "0", "1">>
    /\ ~LunarRequest
    /\ Val(cal).attrs = {"setSolarDate"}
    /\ Val(cal).date # None
    /\ Code = 500 /\ Body.error = "calc_failed"

====
